---- MODULE Spec2Model ----
(***************************************************************************)
(* State-machine model of the PDF overlay editor.                          *)
(*                                                                         *)
(*  - App (src/types.ts): pdfDoc, pagesData, scale, the upload / close /   *)
(*    zoom handlers and handlePageTextChange.                              *)
(*  - EditablePage (src/components/EditablePage.tsx): per page textItems,  *)
(*    viewport, editingIndex, the renderPage effect with its isCancelled   *)
(*    flag, handleItemChange, handleItemClick and the onBlur handler.      *)
(*  - extractTextFromPdf (src/unnamed/part_002): whole-document text       *)
(*    extraction of the textarea variant of the App (src/unnamed/part_001).*)
(*                                                                         *)
(* Strings are TLA+ strings, joined with \o.  Scales are in tenths         *)
(* (1.2 is 12).  Index 0 stands for null (run indexes are 1-based here,    *)
(* 0-based in the source).                                                 *)
(*                                                                         *)
(* Host behaviour the source relies on and does not contain:               *)
(*  - canvasRef.current is assigned by the rendering host.  The source     *)
(*    only reads it (line 30), so whether the host has attached it when    *)
(*    the effect runs is an input, chosen in Init.  A host that attaches   *)
(*    the ref only to a rendered canvas leaves it null while viewport is   *)
(*    null (the placeholder of lines 91-98 has no canvas), and renderPage  *)
(*    then returns at line 30 on every run: that is the canvasRef = FALSE  *)
(*    branch, in which no page is ever rendered.                           *)
(*  - a pointer action outside the focused editable surface first takes    *)
(*    the focus from it, which runs its onBlur handler; pointer-driven     *)
(*    actions are therefore enabled only when no surface holds the focus.  *)
(***************************************************************************)
EXTENDS Integers, Sequences, FiniteSets, TLC

\* ---------------------------------------------------------------- bounds
\* renderPage calls (current and superseded) that may be in flight together
MaxInflight == 2
\* zoom steps above the initial scale that are explored
ZoomSpan == 1

\* runs on one page of a file given to extractTextFromPdf
MaxRuns == 2
\* pages of a file given to extractTextFromPdf
MaxExtractPages == 2
\* uploads of the textarea App that are followed
MaxExtractions == 1
\* rewrite actions of the textarea App that are followed
MaxRewrites == 2
\* runs on the page given to the reconstructor
MaxPageRuns == 3
\* lines of the longest exported body
MaxBodyLines == 45
\* pages handed to generatePdfFromContent
MaxBodies == 2
\* messages of the conversation that are followed
MaxMessages == 3
\* calls to the AI service that may be in flight together
MaxCalls == 2

\* ------------------------------------------------------------- constants
InitScale == 12
MinScale == 5
MaxScale == 30
ZoomStep == 1

\* ------------------------------------------------------- input documents
Docs == {1, 2}

numPages(d) == IF d = 1 THEN 2 ELSE 1

Pages == UNION {1..numPages(d) : d \in Docs}

Item(s, x, y) == [str |-> s, transform |-> <<12, 0, 0, 12, x, y>>]

\* a run set in a condensed face: the horizontal scale (entry a) is smaller
\* than the vertical one (entry d)
Condensed(s, x, y) == [str |-> s, transform |-> <<10, 0, 0, 12, x, y>>]

\* textContent.items of page p of document d, in extraction order
DocItems(d, p) ==
  IF d = 1
  THEN IF p = 1 THEN <<Item("World", 50, 100), Item("Hello", 0, 100)>>
       ELSE <<Item("Next", 0, 50)>>
  ELSE <<Condensed("Other", 0, 100)>>

\* what the user may have typed into the editable surface
EditValues == {"Hi"}

\* a viewport is identified by the scale it was made with
NoViewport == 0
NoElement == <<0, 0>>
NoExtraction ==
  [pc |-> "idle", file |-> << >>, i |-> 0, fullText |-> "", failedAt |-> 0, n |-> 0]
NoRewrite == [pc |-> "idle", n |-> 0]

VARIABLES
  pdfDoc,        \* App: 0 (null) or the loaded document
  uploads,       \* handleFileUpload calls awaiting getPdfDocument
  pagesData,     \* App: page number -> page text (a partial map)
  scale,         \* App: zoom, in tenths
  mounted,       \* pages for which an EditablePage exists
  canvasRef,     \* EditablePage: canvasRef.current is not null when the effect runs
  textItems,     \* EditablePage: the page's runs
  viewport,      \* EditablePage: NoViewport or the viewport last set
  editingIndex,  \* EditablePage: 0 (null) or the run being edited
  requests,      \* renderPage calls in flight, per page
  activeElement, \* <<page, index>> of the focused editable surface
  last,          \* the kind of the step taken last
  ext,           \* textarea App: the extractTextFromPdf call of handleFileUpload
  editorText,    \* textarea App: the extracted (editable) document text
  rewrite,       \* textarea App: the performActionOnText call of handleAiAction
  alertText,     \* textarea App: the text of the alert shown last ("" if none)
  chatMessages,  \* App: the conversation shown in the assistant panel
  chatInput,     \* App: the content of the chat input
  isAiProcessing, \* App: the processing flag
  showAssistant, \* App: the assistant panel is shown
  aiCalls,       \* App: the calls to the AI service that are in flight
  exported,      \* App: the pages handed to generatePdfFromContent last
  rcItems,       \* reconstructor: textContent.items of the page
  rcSorted,      \* reconstructor: the items after items.sort
  rcText,        \* reconstructor: pageText after the walk
  rcPc,          \* reconstructor: "start", "sorted" or "done"
  rfPages,       \* reflow: the pages argument, wrapped by splitTextToSize
  rfLines,       \* reflow: the doc.text calls of the last generatePdfFromContent
  rfCursorY,     \* reflow: cursorY when the last call returned
  rfSaved        \* reflow: the documents saved so far (pages and lines)

overlayVars == <<pdfDoc, uploads, pagesData, scale, mounted, canvasRef,
                 textItems, viewport, editingIndex, requests, activeElement>>

extractVars == <<ext, editorText, rewrite, alertText>>

assistVars == <<chatMessages, chatInput, isAiProcessing, showAssistant,
                aiCalls, exported>>

reconstructVars == <<rcItems, rcSorted, rcText, rcPc>>

reflowVars == <<rfPages, rfLines, rfCursorY, rfSaved>>

\* what the overlay editing steps leave alone
otherVars == <<extractVars, assistVars, reconstructVars, reflowVars>>

vars == <<overlayVars, last, extractVars, assistVars, reconstructVars, reflowVars>>

\* --------------------------------------------------------------- helpers
Max(a, b) == IF a > b THEN a ELSE b
Min(a, b) == IF a < b THEN a ELSE b
Abs(a) == IF a < 0 THEN 0 - a ELSE a

RECURSIVE JoinNoSeparator(_)
\* variant: items.map(item => item.str).join('')
JoinNoSeparator(items) ==
  IF Len(items) = 0 THEN ""
  ELSE items[1].str \o JoinNoSeparator(Tail(items))

RECURSIVE Join(_)
\* items.map(item => item.str).join(' ')
Join(items) ==
  IF Len(items) = 0 THEN ""
  ELSE IF Len(items) = 1 THEN items[1].str
  ELSE items[1].str \o " " \o Join(Tail(items))

\* variant: setPagesData({ [pageNum]: text }), the previous entries not spread
handlePageTextChangeNoSpread(data, pageNum, text) ==
  [q \in {pageNum} |-> text]

\* setPagesData(prev => ({ ...prev, [pageNum]: text }))
handlePageTextChange(data, pageNum, text) ==
  [q \in (DOMAIN data) \cup {pageNum} |->
     IF q = pageNum THEN text ELSE data[q]]

\* [...textItems] with newItems[index] = { ...newItems[index], str: newValue }
ReplaceStr(items, index, newValue) ==
  [items EXCEPT ![index] = [@ EXCEPT !.str = newValue]]

\* isEditing for run idx of page p: the run is rendered as the editable surface
isEditing(p, idx) ==
  /\ p \in mounted
  /\ viewport[p] # NoViewport
  /\ idx \in 1..Len(textItems[p])
  /\ editingIndex[p] = idx

EditingPairs ==
  UNION {{<<p, idx>> : idx \in {i \in 1..Len(textItems[p]) : isEditing(p, i)}} : p \in Pages}

\* a renderPage call: the scale it closed over, its isCancelled flag and the
\* await it is suspended at (pdfDoc is the current one while it is not cancelled)
Request(s) == [scale |-> s, isCancelled |-> FALSE, pc |-> "getPage"]

Cancel(rs) == {[r EXCEPT !.isCancelled = TRUE] : r \in rs}

RECURSIVE SumOver(_, _)
SumOver(f, S) ==
  IF S = {} THEN 0
  ELSE LET x == CHOOSE y \in S : TRUE IN Cardinality(f[x]) + SumOver(f, S \ {x})

\* the number of renderPage calls in flight
InFlight(rq) == SumOver(rq, DOMAIN rq)

\* the effect of EditablePage runs: cleanup of the previous run, then renderPage
RunEffect(rs, ref, d, s) ==
  IF ref /\ d # 0 THEN Cancel(rs) \cup {Request(s)} ELSE Cancel(rs)

\* ------------------------------------------------------------------ Init
Init ==
  /\ pdfDoc = 0
  /\ uploads = {}
  /\ pagesData = << >>
  /\ scale = InitScale
  /\ mounted = {}
  /\ canvasRef \in BOOLEAN
  /\ textItems = [p \in Pages |-> << >>]
  /\ viewport = [p \in Pages |-> NoViewport]
  /\ editingIndex = [p \in Pages |-> 0]
  /\ requests = [p \in Pages |-> {}]
  /\ activeElement = NoElement
  /\ last = "init"
  /\ ext = NoExtraction
  /\ editorText = ""
  /\ rewrite = NoRewrite
  /\ alertText = ""
  /\ chatMessages = << >>
  /\ chatInput = ""
  /\ isAiProcessing = FALSE
  /\ showAssistant = FALSE
  /\ aiCalls = << >>
  /\ exported = << >>
  /\ rcItems = << >>
  /\ rcSorted = << >>
  /\ rcText = ""
  /\ rcPc = "start"
  /\ rfPages = << >>
  /\ rfLines = << >>
  /\ rfCursorY = 0
  /\ rfSaved = {}

\* ------------------------------------------------------------------- App
\* handleFileUpload up to "await getPdfDocument(url)"; the file input exists
\* only on the upload screen (!pdfFile || !pdfDoc)
StartUpload(d) ==
  /\ pdfDoc = 0
  /\ d \notin uploads
  /\ uploads' = uploads \cup {d}
  /\ last' = "app"
  /\ UNCHANGED otherVars
  /\ UNCHANGED <<pdfDoc, pagesData, scale, mounted, canvasRef, textItems,
                 viewport, editingIndex, requests, activeElement>>

\* variant: the text data is not reset when the document is set
FinishUploadKeepText(d) ==
  /\ d \in uploads
  /\ uploads' = uploads \ {d}
  /\ pdfDoc' = d
  /\ pagesData' = pagesData
  /\ mounted' = 1..numPages(d)
  /\ canvasRef' = canvasRef
  /\ textItems' = [p \in Pages |->
       IF p \in mounted' /\ p \in mounted THEN textItems[p] ELSE << >>]
  /\ viewport' = [p \in Pages |->
       IF p \in mounted' /\ p \in mounted THEN viewport[p] ELSE NoViewport]
  /\ editingIndex' = [p \in Pages |->
       IF p \in mounted' /\ p \in mounted THEN editingIndex[p] ELSE 0]
  /\ requests' = [p \in Pages |->
       IF p \in mounted'
       THEN RunEffect(IF p \in mounted THEN requests[p] ELSE {},
                      canvasRef, d, scale)
       ELSE {}]
  /\ InFlight(requests') <= MaxInflight
  /\ activeElement' =
       IF activeElement[1] \in mounted' THEN activeElement ELSE NoElement
  /\ scale' = scale
  /\ last' = (IF pdfDoc = 0 THEN "load" ELSE "replace")
  /\ UNCHANGED otherVars

\* getPdfDocument resolves: setPdfDoc(doc); setPagesData({}); the App then
\* renders one EditablePage per page of doc (key = page number), so a page
\* that is already mounted keeps its state and re-runs its effect, a new page
\* mounts and a page beyond numPages unmounts
FinishUpload(d) ==
  /\ d \in uploads
  /\ uploads' = uploads \ {d}
  /\ pdfDoc' = d
  /\ pagesData' = << >>
  /\ mounted' = 1..numPages(d)
  /\ canvasRef' = canvasRef
  /\ textItems' = [p \in Pages |->
       IF p \in mounted' /\ p \in mounted THEN textItems[p] ELSE << >>]
  /\ viewport' = [p \in Pages |->
       IF p \in mounted' /\ p \in mounted THEN viewport[p] ELSE NoViewport]
  /\ editingIndex' = [p \in Pages |->
       IF p \in mounted' /\ p \in mounted THEN editingIndex[p] ELSE 0]
  /\ requests' = [p \in Pages |->
       IF p \in mounted'
       THEN RunEffect(IF p \in mounted THEN requests[p] ELSE {},
                      canvasRef, d, scale)
       ELSE {}]
  /\ InFlight(requests') <= MaxInflight
  /\ activeElement' =
       IF activeElement[1] \in mounted' THEN activeElement ELSE NoElement
  /\ scale' = scale
  /\ last' = (IF pdfDoc = 0 THEN "load" ELSE "replace")
  /\ UNCHANGED otherVars

\* getPdfDocument rejects: alert, nothing else changes
FailUpload(d) ==
  /\ d \in uploads
  /\ uploads' = uploads \ {d}
  /\ last' = "app"
  /\ UNCHANGED otherVars
  /\ UNCHANGED <<pdfDoc, pagesData, scale, mounted, canvasRef, textItems,
                 viewport, editingIndex, requests, activeElement>>

\* Close button: setPdfFile(null); setPdfDoc(null); every page unmounts
Close ==
  /\ pdfDoc # 0
  /\ activeElement = NoElement
  /\ pdfDoc' = 0
  /\ mounted' = {}
  /\ canvasRef' = canvasRef
  /\ textItems' = [p \in Pages |-> << >>]
  /\ viewport' = [p \in Pages |-> NoViewport]
  /\ editingIndex' = [p \in Pages |-> 0]
  /\ requests' = [p \in Pages |-> {}]
  /\ last' = "app"
  /\ UNCHANGED otherVars
  /\ UNCHANGED <<uploads, pagesData, scale, activeElement>>

\* setScale(newScale) with newScale in `range`, the scales that are followed:
\* every mounted page re-runs its effect when scale changed; a scale equal to
\* the current one changes nothing
SetScaleIn(newScale, range) ==
  /\ pdfDoc # 0
  /\ activeElement = NoElement
  /\ newScale \in range
  /\ scale' = newScale
  /\ requests' = [p \in Pages |->
       IF p \in mounted /\ newScale # scale
       THEN RunEffect(requests[p], canvasRef, pdfDoc, newScale)
       ELSE requests[p]]
  /\ InFlight(requests') <= MaxInflight
  /\ last' = (IF newScale = scale THEN "zoomKept" ELSE "zoom")
  /\ UNCHANGED otherVars
  /\ UNCHANGED <<pdfDoc, uploads, pagesData, mounted, canvasRef, textItems,
                 viewport, editingIndex, activeElement>>

\* setScale(newScale), followed up to ZoomSpan steps above the initial scale
SetScale(newScale) == SetScaleIn(newScale, InitScale..(InitScale + ZoomSpan))

\* variant: the lower limit is not applied
zoomOutNoLimit(s) == s - ZoomStep

\* s => Math.max(0.5, s - 0.1)
zoomOut(s) == Max(MinScale, s - ZoomStep)

\* s => Math.min(3, s + 0.1)
zoomIn(s) == Min(MaxScale, s + ZoomStep)

\* the zoom-out button: setScale(s => Math.max(0.5, s - 0.1))
ZoomOut == SetScale(zoomOut(scale))

\* the zoom-in button: setScale(s => Math.min(3, s + 0.1))
ZoomIn == SetScale(zoomIn(scale))

\* the zoom buttons, followed wherever the scale goes
ZoomOutAnywhere == SetScaleIn(zoomOut(scale), Int)

ZoomInAnywhere == SetScaleIn(zoomIn(scale), Int)

\* ---------------------------------------------------------- EditablePage
\* "await pdfDoc.getPage(pageNumber)" resolves: vp = page.getViewport({scale});
\* setViewport(vp); the canvas is sized; page.render and then
\* page.getTextContent are awaited (no state is written between the two)
GetPageResolved(p, r) ==
  /\ r \in requests[p]
  /\ r.pc = "getPage"
  /\ viewport' = [viewport EXCEPT ![p] = r.scale]
  /\ requests' = [requests EXCEPT ![p] = (@ \ {r}) \cup {[r EXCEPT !.pc = "getText"]}]
  /\ last' = (IF r.isCancelled THEN "stale" ELSE "render")
  /\ UNCHANGED otherVars
  /\ UNCHANGED <<pdfDoc, uploads, pagesData, scale, mounted, canvasRef,
                 textItems, editingIndex, activeElement>>

\* variant: the page text is joined from textItems instead of newItems
handleItemChangeStaleJoin(items, data, p, index, newValue) ==
  [items |-> ReplaceStr(items, index, newValue),
   data  |-> handlePageTextChange(data, p, Join(items))]

\* variant: the commit joins the runs without the separator of the first pass
handleItemChangeNoSeparator(items, data, p, index, newValue) ==
  LET newItems == ReplaceStr(items, index, newValue)
  IN  [items |-> newItems,
       data  |-> handlePageTextChange(data, p, JoinNoSeparator(newItems))]

\* handleItemChange(index, newValue) on the runs `items` of page p:
\* the new runs and the new pagesData
handleItemChange(items, data, p, index, newValue) ==
  LET newItems == ReplaceStr(items, index, newValue)
  IN  [items |-> newItems,
       data  |-> handlePageTextChange(data, p, Join(newItems))]

\* "await page.render(...).promise" and "await page.getTextContent()" have
\* resolved.  if (!isCancelled): setTextItems(items)
\* and onTextChange(pageNumber, items.map(str).join(' ')).  The page then
\* re-renders: a run that is rendered as the editable surface takes the focus
\* (ref callback, el.focus()), and a surface that lost the focus runs its onBlur
\* handler with its content v.
GetTextResolved(p, r, v) ==
  /\ r \in requests[p]
  /\ r.pc = "getText"
  /\ requests' = [requests EXCEPT ![p] = @ \ {r}]
  /\ last' = (IF r.isCancelled THEN "stale" ELSE "rendered")
  /\ UNCHANGED otherVars
  /\ UNCHANGED <<pdfDoc, uploads, scale, mounted, canvasRef, viewport>>
  /\ IF r.isCancelled
     THEN UNCHANGED <<textItems, pagesData, editingIndex, activeElement>>
     ELSE LET items == DocItems(pdfDoc, p)
              data  == handlePageTextChange(pagesData, p, Join(items))
              i     == editingIndex[p]
              shown == i \in 1..Len(items) /\ viewport[p] # NoViewport
              q     == activeElement[1]
              k     == activeElement[2]
          IN  IF shown /\ activeElement # <<p, i>> /\ activeElement # NoElement
              THEN LET c == handleItemChange(textItems[q], data, q, k, v)
                   IN  /\ textItems' = [textItems EXCEPT ![p] = items, ![q] = c.items]
                       /\ pagesData' = c.data
                       /\ editingIndex' = [editingIndex EXCEPT ![q] = 0]
                       /\ activeElement' = <<p, i>>
              ELSE /\ textItems' = [textItems EXCEPT ![p] = items]
                   /\ pagesData' = data
                   /\ editingIndex' = editingIndex
                   /\ activeElement' =
                        IF shown THEN <<p, i>>
                        ELSE IF q = p THEN NoElement ELSE activeElement

\* one of the awaited calls of renderPage rejects: catch, console.error
RenderFailed(p, r) ==
  /\ r \in requests[p]
  /\ requests' = [requests EXCEPT ![p] = @ \ {r}]
  /\ last' = (IF r.isCancelled THEN "stale" ELSE "renderFailed")
  /\ UNCHANGED otherVars
  /\ UNCHANGED <<pdfDoc, uploads, pagesData, scale, mounted, canvasRef,
                 textItems, viewport, editingIndex, activeElement>>

\* the height of the page's view box in document units (portrait Letter);
\* the viewport is not rotated and has no offset
ViewBoxHeight == 792

\* viewport.convertToViewportPoint(x, y) of the viewport made with scale vp:
\* document space has its origin at the bottom left, the screen at the top
\* left; the result is in tenths of a pixel
convertToViewportPoint(vp, x, y) == <<x * vp, (ViewBoxHeight - y) * vp>>

\* the style of the element of run idx of page p (textItems.map, both the
\* static and the editable element use it), in tenths of a pixel
commonStyle(p, idx) ==
  LET item       == textItems[p][idx]
      pt         == convertToViewportPoint(viewport[p], item.transform[5],
                                           item.transform[6])
      fontSize   == item.transform[1] * scale
      fontHeight == fontSize
      top        == pt[2] - fontHeight
  IN  [left |-> pt[1], top |-> top, fontSize |-> fontSize]

\* variant: the selection check does not return
handleItemClickIgnoreSelection(p, index, selection) ==
  /\ p \in mounted
  /\ viewport[p] # NoViewport
  /\ index \in 1..Len(textItems[p])
  /\ editingIndex[p] # index
  /\ activeElement = NoElement
  /\ editingIndex' = [editingIndex EXCEPT ![p] = index]
  /\ activeElement' = <<p, index>>
  /\ last' = (IF selection THEN "selectionClick" ELSE "click")
  /\ UNCHANGED otherVars
  /\ UNCHANGED <<pdfDoc, uploads, pagesData, scale, mounted, canvasRef,
                 textItems, viewport, requests>>

\* click on the static element of run index; selection is
\* window.getSelection().toString().length > 0
handleItemClick(p, index, selection) ==
  /\ p \in mounted
  /\ viewport[p] # NoViewport
  /\ index \in 1..Len(textItems[p])
  /\ editingIndex[p] # index
  /\ activeElement = NoElement
  /\ IF selection
     THEN UNCHANGED <<editingIndex, activeElement>>
     ELSE /\ editingIndex' = [editingIndex EXCEPT ![p] = index]
          /\ activeElement' = <<p, index>>
  /\ last' = (IF selection THEN "selectionClick" ELSE "click")
  /\ UNCHANGED otherVars
  /\ UNCHANGED <<pdfDoc, uploads, pagesData, scale, mounted, canvasRef,
                 textItems, viewport, requests>>

\* variant: onBlur without setEditingIndex(null)
onBlurKeepEditing(p, newValue) ==
  /\ activeElement # NoElement
  /\ activeElement[1] = p
  /\ LET idx == activeElement[2]
         c   == handleItemChange(textItems[p], pagesData, p, idx, newValue)
     IN  /\ textItems' = [textItems EXCEPT ![p] = c.items]
         /\ pagesData' = c.data
         /\ last' = "blur"
  /\ editingIndex' = editingIndex
  /\ activeElement' = NoElement
  /\ UNCHANGED otherVars
  /\ UNCHANGED <<pdfDoc, uploads, scale, mounted, canvasRef, viewport, requests>>

\* onBlur of the editable surface: handleItemChange(idx, innerText);
\* setEditingIndex(null)
onBlur(p, newValue) ==
  /\ activeElement # NoElement
  /\ activeElement[1] = p
  /\ LET idx == activeElement[2]
         c   == handleItemChange(textItems[p], pagesData, p, idx, newValue)
     IN  /\ textItems' = [textItems EXCEPT ![p] = c.items]
         /\ pagesData' = c.data
         /\ last' = "blur"
  /\ editingIndex' = [editingIndex EXCEPT ![p] = 0]
  /\ activeElement' = NoElement
  /\ UNCHANGED otherVars
  /\ UNCHANGED <<pdfDoc, uploads, scale, mounted, canvasRef, viewport, requests>>

\* the content of the editable surface when it loses the focus
NewValues(p) ==
  EditValues \cup
    (IF activeElement[1] = p /\ activeElement[2] \in 1..Len(textItems[p])
     THEN {textItems[p][activeElement[2]].str} ELSE {})

\* ------------------------------------------------------------------ Next
Next ==
  \/ \E d \in Docs : StartUpload(d)
  \/ \E d \in Docs : FinishUpload(d)
  \/ \E d \in Docs : FailUpload(d)
  \/ Close
  \/ ZoomOut
  \/ ZoomIn
  \/ \E p \in Pages : \E r \in requests[p] : GetPageResolved(p, r)
  \/ \E p \in Pages : \E r \in requests[p], v \in EditValues : GetTextResolved(p, r, v)
  \/ \E p \in Pages : \E r \in requests[p] : RenderFailed(p, r)
  \/ \E p \in Pages, index \in 1..2, selection \in BOOLEAN :
       handleItemClick(p, index, selection)
  \/ \E p \in Pages : \E newValue \in NewValues(p) : onBlur(p, newValue)

Spec == Init /\ [][Next]_vars

\* the extraction collaborator answers a renderPage call that is waiting
AnswerRequest ==
  \E p \in Pages : \E r \in requests[p] :
    \/ GetPageResolved(p, r)
    \/ \E v \in EditValues : GetTextResolved(p, r, v)

\* the overlay editor with a collaborator that never fails
NextLive ==
  \/ \E d \in Docs : StartUpload(d)
  \/ \E d \in Docs : FinishUpload(d)
  \/ \E d \in Docs : FailUpload(d)
  \/ Close
  \/ ZoomOut
  \/ ZoomIn
  \/ AnswerRequest
  \/ \E p \in Pages, index \in 1..2, selection \in BOOLEAN :
       handleItemClick(p, index, selection)
  \/ \E p \in Pages : \E newValue \in NewValues(p) : onBlur(p, newValue)

\* every call of the collaborator that stays pending is answered
SpecLive == Init /\ [][NextLive]_vars /\ WF_vars(AnswerRequest)

\* the App with its zoom over the whole range: documents are loaded, shown
\* and closed, the pages are rendered, the user zooms and does not edit
ZoomNext ==
  \/ \E d \in Docs : StartUpload(d)
  \/ \E d \in Docs : FinishUpload(d)
  \/ Close
  \/ ZoomOutAnywhere
  \/ ZoomInAnywhere
  \/ AnswerRequest

SpecZoom == Init /\ [][ZoomNext]_vars

\* ------------------------------------- textarea App / extractTextFromPdf
\* the runs a page of an uploaded file is made of
RunPool == {Item("Hello", 0, 100), Item("World", 50, 100), Item("Next", 0, 50)}

RECURSIVE SeqsUpTo(_, _)
\* the sequences of at most n distinct elements of S
SeqsUpTo(S, n) ==
  IF n = 0 THEN {<< >>}
  ELSE LET shorter == SeqsUpTo(S, n - 1)
       IN  shorter \cup
           {Append(sq, e) : sq \in {t \in shorter : Len(t) = n - 1},
                            e \in S} 

Distinct(sq) == \A a, b \in 1..Len(sq) : a # b => sq[a] # sq[b]

\* textContent.items of one page, in extraction order
PageInputs == {sq \in SeqsUpTo(RunPool, MaxRuns) : Distinct(sq)}

RECURSIVE FilesUpTo(_)
FilesUpTo(n) ==
  IF n = 0 THEN {<< >>}
  ELSE LET shorter == FilesUpTo(n - 1)
       IN  shorter \cup
           {Append(f, pg) : f \in {t \in shorter : Len(t) = n - 1},
                            pg \in PageInputs}

\* the files that are uploaded: one sequence of runs per page, at least one page
ExtractFiles == {f \in FilesUpTo(MaxExtractPages) : Len(f) >= 1}

\* variant: the lines are ordered by ascending Y
SortCompareAscendingY(a, b) ==
  IF Abs(a.transform[6] - b.transform[6]) > 5
  THEN a.transform[6] - b.transform[6]
  ELSE a.transform[5] - b.transform[5]

\* the comparator of items.sort: a negative result puts a before b
SortCompare(a, b) ==
  IF Abs(a.transform[6] - b.transform[6]) > 5
  THEN b.transform[6] - a.transform[6]
  ELSE a.transform[5] - b.transform[5]

RECURSIVE InsertSorted(_, _)
\* insertion step of the (stable) sort: x goes behind the last element
\* that does not compare greater than x
InsertSorted(sorted, x) ==
  IF Len(sorted) = 0 THEN <<x>>
  ELSE IF SortCompare(sorted[Len(sorted)], x) > 0
       THEN Append(InsertSorted(SubSeq(sorted, 1, Len(sorted) - 1), x),
                   sorted[Len(sorted)])
       ELSE Append(sorted, x)

RECURSIVE SortItems(_)
\* items.sort((a, b) => ...)
SortItems(items) ==
  IF Len(items) = 0 THEN << >>
  ELSE InsertSorted(SortItems(SubSeq(items, 1, Len(items) - 1)), items[Len(items)])

\* pageText.endsWith(c)
EndsWith(text, c) == Len(text) > 0 /\ SubSeq(text, Len(text), Len(text)) = c

\* variant: a space is added whatever pageText ends with
SeparatorNoEndCheck(pageText, lastY, y) ==
  IF lastY # << >> /\ Abs(y - lastY[1]) > 10 THEN "\n"
  ELSE IF lastY # << >> /\ Abs(y - lastY[1]) > 100 THEN "\n\n"
  ELSE IF Len(pageText) > 0 THEN " "
       ELSE ""

\* the separator put before an item at height y, lastY = << >> being undefined
Separator(pageText, lastY, y) ==
  IF lastY # << >> /\ Abs(y - lastY[1]) > 10 THEN "\n"
  ELSE IF lastY # << >> /\ Abs(y - lastY[1]) > 100 THEN "\n\n"
  ELSE IF Len(pageText) > 0 /\ ~EndsWith(pageText, " ") /\ ~EndsWith(pageText, "\n")
       THEN " "
       ELSE ""

RECURSIVE WalkItems(_, _, _)
\* for (const item of items) { ... pageText += item.str; lastY = ... }
WalkItems(items, pageText, lastY) ==
  IF Len(items) = 0 THEN pageText
  ELSE LET item == items[1]
           y    == item.transform[6]
       IN  WalkItems(Tail(items),
                     pageText \o Separator(pageText, lastY, y) \o item.str,
                     <<y>>)

\* the text of one page: sort, then walk
PageText(items) == WalkItems(SortItems(items), "", << >>)

\* handleFileUpload of the textarea App: setIsLoading(true),
\* "await extractTextFromPdf(file)" begins (file.arrayBuffer, getDocument)
ExtStart(file) ==
  /\ ext.pc \in {"idle", "done", "failed"}
  /\ ext.n < MaxExtractions
  /\ ext' = [pc |-> "load", file |-> file, i |-> 0, fullText |-> "",
             failedAt |-> 0, n |-> ext.n + 1]
  /\ last' = "extStart"
  /\ UNCHANGED <<overlayVars, editorText, rewrite, alertText>>
  /\ UNCHANGED <<assistVars, reconstructVars, reflowVars>>

\* the document is loaded: fullText = ''; the loop starts with i = 1
ExtLoaded ==
  /\ ext.pc = "load"
  /\ ext' = [ext EXCEPT !.pc = "page", !.i = 1]
  /\ last' = "extLoaded"
  /\ UNCHANGED <<overlayVars, editorText, rewrite, alertText>>
  /\ UNCHANGED <<assistVars, reconstructVars, reflowVars>>

\* getPage(i) and getTextContent() resolve: fullText += pageText + '\n\n';
\* after the last page extractTextFromPdf returns fullText and
\* handleFileUpload does setEditorText(text)
ExtPage ==
  /\ ext.pc = "page"
  /\ LET text == ext.fullText \o PageText(ext.file[ext.i]) \o "\n\n"
     IN  IF ext.i < Len(ext.file)
         THEN /\ ext' = [ext EXCEPT !.i = @ + 1, !.fullText = text]
              /\ editorText' = editorText
         ELSE /\ ext' = [ext EXCEPT !.pc = "done", !.fullText = text]
              /\ editorText' = text
  /\ last' = "extPage"
  /\ UNCHANGED <<overlayVars, rewrite, alertText>>
  /\ UNCHANGED <<assistVars, reconstructVars, reflowVars>>

\* an awaited call rejects: the catch of extractTextFromPdf rethrows, the
\* catch of handleFileUpload alerts; no text is set
ExtFail ==
  /\ ext.pc \in {"load", "page"}
  /\ ext' = [ext EXCEPT !.pc = "failed", !.failedAt = ext.i]
  /\ alertText' = "Failed to process PDF. Please try another file."
  /\ last' = "extFail"
  /\ UNCHANGED <<overlayVars, editorText, rewrite>>
  /\ UNCHANGED <<assistVars, reconstructVars, reflowVars>>

RECURSIVE IsBlank(_)
\* !text.trim(): the text is empty or white space only
IsBlank(text) ==
  IF Len(text) = 0 THEN TRUE
  ELSE /\ SubSeq(text, 1, 1) \in {" ", "\n"}
       /\ IsBlank(SubSeq(text, 2, Len(text)))

\* what ai.models.generateContent answers (response.text), "" being no text
AiResults == {"Rewritten", ""}

\* the message of the error ai.models.generateContent rejects with
ServiceErrorMessage == "503"

\* handleAiAction of the textarea App up to "await performActionOnText(
\* editorText, action)"; the toolbar buttons are disabled while isAiProcessing
handleAiActionTextarea ==
  /\ rewrite.pc = "idle"
  /\ rewrite.n < MaxRewrites
  /\ ~IsBlank(editorText)
  /\ rewrite' = [pc |-> "pending", n |-> rewrite.n + 1]
  /\ last' = "aiStart"
  /\ UNCHANGED <<overlayVars, ext, editorText, alertText>>
  /\ UNCHANGED <<assistVars, reconstructVars, reflowVars>>

\* generateContent resolves: generateCompletion returns
\* response.text || "No response generated."; setEditorText(result)
PerformActionResolved(text) ==
  /\ rewrite.pc = "pending"
  /\ rewrite' = [rewrite EXCEPT !.pc = "idle"]
  /\ editorText' = (IF text = "" THEN "No response generated." ELSE text)
  /\ last' = "aiDone"
  /\ UNCHANGED <<overlayVars, ext, alertText>>
  /\ UNCHANGED <<assistVars, reconstructVars, reflowVars>>

\* generateContent rejects: the catch of generateCompletion logs and returns
\* `Error: ${error.message}`, which handleAiAction takes as the result:
\* setEditorText(result)
PerformActionServiceError ==
  /\ rewrite.pc = "pending"
  /\ rewrite' = [rewrite EXCEPT !.pc = "idle"]
  /\ editorText' = "Error: " \o ServiceErrorMessage
  /\ last' = "aiServiceError"
  /\ UNCHANGED <<overlayVars, ext, alertText>>
  /\ UNCHANGED <<assistVars, reconstructVars, reflowVars>>

\* getAi() throws (it is called outside the try of generateCompletion): the
\* catch of handleAiAction alerts
PerformActionRejected ==
  /\ rewrite.pc = "pending"
  /\ rewrite' = [rewrite EXCEPT !.pc = "idle"]
  /\ alertText' = "AI processing failed."
  /\ last' = "aiRejected"
  /\ UNCHANGED <<overlayVars, ext, editorText>>
  /\ UNCHANGED <<assistVars, reconstructVars, reflowVars>>

ExtractNext ==
  \/ \E file \in ExtractFiles : ExtStart(file)
  \/ ExtLoaded
  \/ ExtPage
  \/ ExtFail
  \/ handleAiActionTextarea
  \/ \E text \in AiResults : PerformActionResolved(text)
  \/ PerformActionServiceError
  \/ PerformActionRejected

ExtractInit == Init /\ canvasRef

SpecExtract == ExtractInit /\ [][ExtractNext]_vars

\* ------------------------------------ the reconstructor on a single page
\* the runs a page given to the reconstructor is made of: a line of two
\* runs, a lower line, three runs 4 units apart in Y, a run that ends in a
\* space and a run far above the others
ReconstructPool ==
  {Item("Hello", 0, 100), Item("World", 50, 100), Item("Next", 0, 50),
   Item("b", 25, 96), Item("c", 0, 92), Item("Hi ", 10, 100),
   Item("Far", 0, 300)}

\* textContent.items of the page, in extraction order
ReconstructInputs == {sq \in SeqsUpTo(ReconstructPool, MaxPageRuns) : Distinct(sq)}

\* items.sort(...) of the page
SortPage ==
  /\ rcPc = "start"
  /\ rcSorted' = SortItems(rcItems)
  /\ rcPc' = "sorted"
  /\ last' = "sort"
  /\ UNCHANGED <<overlayVars, extractVars, assistVars, reflowVars>>
  /\ UNCHANGED <<rcItems, rcText>>

\* the walk over the sorted items that builds pageText
WalkPage ==
  /\ rcPc = "sorted"
  /\ rcText' = WalkItems(rcSorted, "", << >>)
  /\ rcPc' = "done"
  /\ last' = "walk"
  /\ UNCHANGED <<overlayVars, extractVars, assistVars, reflowVars>>
  /\ UNCHANGED <<rcItems, rcSorted>>

ReconstructNext ==
  \/ SortPage
  \/ WalkPage

ReconstructInit ==
  /\ rcItems \in ReconstructInputs
  /\ rcSorted = << >>
  /\ rcText = ""
  /\ rcPc = "start"
  /\ pdfDoc = 0
  /\ uploads = {}
  /\ pagesData = << >>
  /\ scale = InitScale
  /\ mounted = {}
  /\ canvasRef = TRUE
  /\ textItems = [p \in Pages |-> << >>]
  /\ viewport = [p \in Pages |-> NoViewport]
  /\ editingIndex = [p \in Pages |-> 0]
  /\ requests = [p \in Pages |-> {}]
  /\ activeElement = NoElement
  /\ last = "init"
  /\ ext = NoExtraction
  /\ editorText = ""
  /\ rewrite = NoRewrite
  /\ alertText = ""
  /\ chatMessages = << >>
  /\ chatInput = ""
  /\ isAiProcessing = FALSE
  /\ showAssistant = FALSE
  /\ aiCalls = << >>
  /\ exported = << >>
  /\ rfPages = << >>
  /\ rfLines = << >>
  /\ rfCursorY = 0
  /\ rfSaved = {}

SpecReconstruct == ReconstructInit /\ [][ReconstructNext]_vars

\* ------------------------------------------------ generatePdfFromContent
\* Lengths are in millimetres, the unit of new jsPDF().  jsPDF is not part of
\* the source: its default page is A4, 210 x 297, and doc.splitTextToSize
\* returns at least one line for every paragraph ([""] for the empty one).
\* The words of the bodies are so wide that no two of them fit into
\* maxWidth, so that splitTextToSize puts every word on a line of its own.
Margin == 15
InitialCursorY == 20
LineHeight == 6
BottomMargin == 20
PageHeight == 297

RECURSIVE SplitFrom(_, _, _)
\* the pieces of text from position start on: the piece that ends before the
\* next separator (or at the end of the text), then the pieces behind it
SplitFrom(text, sep, start) ==
  LET stop == CHOOSE i \in start..(Len(text) + 1) :
                /\ i = Len(text) + 1 \/ SubSeq(text, i, i) = sep
                /\ \A j \in start..(i - 1) : SubSeq(text, j, j) # sep
  IN  IF stop > Len(text) THEN <<SubSeq(text, start, Len(text))>>
      ELSE <<SubSeq(text, start, stop - 1)>> \o SplitFrom(text, sep, stop + 1)

\* text.split(sep) for a separator of one character
SplitOn(text, sep) == SplitFrom(text, sep, 1)

\* doc.splitTextToSize(paragraph, maxWidth)
splitTextToSize(paragraph) == SplitOn(paragraph, " ")

RECURSIVE Words(_)
\* a paragraph of n words
Words(n) == IF n = 0 THEN "" ELSE IF n = 1 THEN "x" ELSE Words(n - 1) \o " x"

\* the page texts that are exported
Bodies ==
  {Words(n) : n \in (MaxBodyLines - 2)..MaxBodyLines}
    \cup {"", "Paragraph one.\n\nParagraph two.", "x x\nx",
          Words(MaxBodyLines - 4) \o "\nx\nx"}

\* the pages argument: one text per source page
ReflowInputs == {sq \in SeqsUpTo(Bodies, MaxBodies) : Len(sq) >= 1}

\* the document that is exported besides the one under study
OtherPages == <<"x x\nx">>

\* variant: the break is taken at the side margin
NeedsPageBreakSideMargin(cursorY) == cursorY > PageHeight - Margin

\* if (cursorY > pageHeight - bottomMargin)
NeedsPageBreak(cursorY) == cursorY > PageHeight - BottomMargin

\* doc.text(line, margin, cursorY) after the overflow check; cursorY += lineHeight.
\* st is the document being written: its text calls, cursorY and current page
EmitLine(st, line) ==
  LET brk == NeedsPageBreak(st.cursorY)
      y   == IF brk THEN InitialCursorY ELSE st.cursorY
      pg  == IF brk THEN st.page + 1 ELSE st.page
  IN  [lines   |-> Append(st.lines,
                          [content |-> line, pageIndex |-> pg, baselineY |-> y]),
       cursorY |-> y + LineHeight,
       page    |-> pg]

RECURSIVE EmitLines(_, _)
\* for (let i = 0; i < lines.length; i++) { ... }
EmitLines(st, lines) ==
  IF Len(lines) = 0 THEN st
  ELSE LET next == EmitLine(st, lines[1])
       IN  IF next.page >= st.page THEN EmitLines(next, Tail(lines)) ELSE st

\* variant: no extra space after a paragraph
NoParagraphGap == LineHeight * 0

\* cursorY += lineHeight * 0.5
ParagraphGap == LineHeight \div 2

RECURSIVE EmitParagraphs(_, _)
\* paragraphs.forEach(paragraph => { ... })
EmitParagraphs(st, paragraphs) ==
  IF Len(paragraphs) = 0 THEN st
  ELSE LET after == EmitLines(st, splitTextToSize(paragraphs[1]))
       IN  IF after.page >= st.page
           THEN EmitParagraphs([after EXCEPT !.cursorY = @ + ParagraphGap],
                               Tail(paragraphs))
           ELSE st

RECURSIVE EmitPagesNoAddPage(_, _, _)
\* variant: cursorY is reset before a further page, doc.addPage() is left out
EmitPagesNoAddPage(st, pages, index) ==
  IF index > Len(pages) THEN st
  ELSE LET start == IF index > 1
                    THEN [st EXCEPT !.cursorY = InitialCursorY]
                    ELSE st
           after == EmitParagraphs(start, SplitOn(pages[index], "\n"))
       IN  IF after.page >= st.page THEN EmitPagesNoAddPage(after, pages, index + 1)
           ELSE st

RECURSIVE EmitPages(_, _, _)
\* pages.forEach((page, index) => { ... }): doc.addPage() and cursorY = 20
\* before every page but the first
EmitPages(st, pages, index) ==
  IF index > Len(pages) THEN st
  ELSE LET start == IF index > 1
                    THEN [st EXCEPT !.cursorY = InitialCursorY, !.page = @ + 1]
                    ELSE st
           after == EmitParagraphs(start, SplitOn(pages[index], "\n"))
       IN  IF after.page >= st.page THEN EmitPages(after, pages, index + 1)
           ELSE st

\* variant: cursorY is kept from the call before
CarriedCursorY(previous) == IF previous = 0 THEN InitialCursorY ELSE previous

\* let cursorY = 20, whatever the call before left
StartCursorY(previous) == InitialCursorY

\* the body of generatePdfFromContent up to doc.save: the document written
\* for `pages` (previous is the cursorY the call before ended with)
LayoutPages(pages, previous) ==
  EmitPages([lines |-> << >>, cursorY |-> StartCursorY(previous), page |-> 0],
            pages, 1)

\* generatePdfFromContent(pages, filename): a new jsPDF, the layout, doc.save
generatePdfFromContent(pages) ==
  LET st == LayoutPages(pages, rfCursorY)
  IN  /\ rfLines' = st.lines
      /\ rfCursorY' = st.cursorY
      /\ rfSaved' = rfSaved \cup {[pages |-> pages, lines |-> st.lines]}
      /\ last' = (IF \E e \in rfSaved : e.pages = pages THEN "reexport" ELSE "export")
      /\ UNCHANGED <<overlayVars, extractVars, assistVars, reconstructVars>>
      /\ UNCHANGED rfPages

ReflowNext ==
  \/ generatePdfFromContent(rfPages)
  \/ generatePdfFromContent(OtherPages)

ReflowInit ==
  /\ rfPages \in ReflowInputs
  /\ rfLines = << >>
  /\ rfCursorY = 0
  /\ rfSaved = {}
  /\ rcItems = << >>
  /\ rcSorted = << >>
  /\ rcText = ""
  /\ rcPc = "start"
  /\ pdfDoc = 0
  /\ uploads = {}
  /\ pagesData = << >>
  /\ scale = InitScale
  /\ mounted = {}
  /\ canvasRef = TRUE
  /\ textItems = [p \in Pages |-> << >>]
  /\ viewport = [p \in Pages |-> NoViewport]
  /\ editingIndex = [p \in Pages |-> 0]
  /\ requests = [p \in Pages |-> {}]
  /\ activeElement = NoElement
  /\ last = "init"
  /\ ext = NoExtraction
  /\ editorText = ""
  /\ rewrite = NoRewrite
  /\ alertText = ""
  /\ chatMessages = << >>
  /\ chatInput = ""
  /\ isAiProcessing = FALSE
  /\ showAssistant = FALSE
  /\ aiCalls = << >>
  /\ exported = << >>

SpecReflow == ReflowInit /\ [][ReflowNext]_vars

\* --------------------------------------- App: assistant, chat and export
\* the rewrite actions offered by the toolbar
AiActions == {"Summarize"}

\* what the user types into the chat input
ChatInputs == {"Q", " "}

RECURSIVE ObjectValues(_)
\* Object.values(data): the values in ascending order of the integer keys
ObjectValues(data) ==
  IF DOMAIN data = {} THEN << >>
  ELSE LET k == CHOOSE x \in DOMAIN data : \A y \in DOMAIN data : x <= y
       IN  <<data[k]>> \o ObjectValues([q \in (DOMAIN data) \ {k} |-> data[q]])

RECURSIVE JoinWith(_, _)
\* parts.join(sep)
JoinWith(parts, sep) ==
  IF Len(parts) = 0 THEN ""
  ELSE IF Len(parts) = 1 THEN parts[1]
  ELSE parts[1] \o sep \o JoinWith(Tail(parts), sep)

\* const fullText = Object.values(pagesData).join('\n\n')
FullText(data) == JoinWith(ObjectValues(data), "\n\n")

ModelMessage(text) == [role |-> "model", text |-> text]
UserMessage(text) == [role |-> "user", text |-> text]

\* a call to the AI service: what it was given
AiCall(kind, action, documentText, message, history) ==
  [kind |-> kind, action |-> action, documentText |-> documentText,
   message |-> message, history |-> history]

\* aiCalls without its i-th call
RemoveAt(calls, i) == SubSeq(calls, 1, i - 1) \o SubSeq(calls, i + 1, Len(calls))

\* the assistant button of the header and the X of the panel
ToggleAssistant ==
  /\ pdfDoc # 0
  /\ showAssistant' = ~showAssistant
  /\ last' = "toggle"
  /\ UNCHANGED <<overlayVars, extractVars, reconstructVars, reflowVars>>
  /\ UNCHANGED <<chatMessages, chatInput, isAiProcessing, aiCalls, exported>>

\* onChange of the chat input (disabled while isAiProcessing)
TypeChat(text) ==
  /\ pdfDoc # 0
  /\ showAssistant
  /\ ~isAiProcessing
  /\ chatInput' = text
  /\ last' = "type"
  /\ UNCHANGED <<overlayVars, extractVars, reconstructVars, reflowVars>>
  /\ UNCHANGED <<chatMessages, isAiProcessing, showAssistant, aiCalls, exported>>

\* handleAiAction up to "await performActionOnText(fullText, action)"; the
\* toolbar buttons are disabled while isAiProcessing
handleAiAction(action) ==
  /\ pdfDoc # 0
  /\ ~isAiProcessing
  /\ Len(chatMessages) + 2 <= MaxMessages
  /\ Len(aiCalls) < MaxCalls
  /\ LET fullText == FullText(pagesData)
     IN  /\ ~IsBlank(fullText)
         /\ aiCalls' = Append(aiCalls, AiCall("action", action, fullText, "", << >>))
  /\ isAiProcessing' = TRUE
  /\ showAssistant' = TRUE
  /\ chatMessages' = Append(chatMessages, ModelMessage("Processing " \o action \o "..."))
  /\ last' = "aiAction"
  /\ UNCHANGED <<overlayVars, extractVars, reconstructVars, reflowVars>>
  /\ UNCHANGED <<chatInput, exported>>

\* the text of the message that shows a rewrite result
ResultMessage(action, result) ==
  "**Here is the result of " \o action \o ":**\n\n" \o result \o "\n\n*Note*"

\* performActionOnText resolves with `result` (the completion, or the
\* "Error: ..." string generateCompletion makes of a service error): the
\* result is shown in the assistant panel; finally setIsAiProcessing(false)
AiActionDone(i, result) ==
  /\ i \in 1..Len(aiCalls)
  /\ aiCalls[i].kind = "action"
  /\ aiCalls' = RemoveAt(aiCalls, i)
  /\ chatMessages' =
       Append(chatMessages, ModelMessage(ResultMessage(aiCalls[i].action, result)))
  /\ isAiProcessing' = FALSE
  /\ last' = "aiActionDone"
  /\ UNCHANGED <<overlayVars, extractVars, reconstructVars, reflowVars>>
  /\ UNCHANGED <<chatInput, showAssistant, exported>>

\* generateContent resolves with response.text = text
AiActionResolved(i, text) ==
  AiActionDone(i, IF text = "" THEN "No response generated." ELSE text)

\* generateContent rejects: generateCompletion returns the error as a string
AiActionServiceError(i) ==
  AiActionDone(i, "Error: " \o ServiceErrorMessage)

\* performActionOnText rejects (getAi() throws): the catch of handleAiAction
AiActionRejected(i) ==
  /\ i \in 1..Len(aiCalls)
  /\ aiCalls[i].kind = "action"
  /\ aiCalls' = RemoveAt(aiCalls, i)
  /\ chatMessages' =
       Append(chatMessages,
              ModelMessage("Sorry, I encountered an error processing that request."))
  /\ isAiProcessing' = FALSE
  /\ last' = "aiActionRejected"
  /\ UNCHANGED <<overlayVars, extractVars, reconstructVars, reflowVars>>
  /\ UNCHANGED <<chatInput, showAssistant, exported>>

\* handleSendMessage up to "await chatWithDocument(userMsg.text, fullText,
\* history)": by the send button (disabled only while the input is blank) or
\* by Enter in the input
handleSendMessage ==
  /\ pdfDoc # 0
  /\ showAssistant
  /\ ~IsBlank(chatInput)
  /\ Len(chatMessages) + 2 <= MaxMessages
  /\ Len(aiCalls) < MaxCalls
  /\ chatMessages' = Append(chatMessages, UserMessage(chatInput))
  /\ chatInput' = ""
  /\ isAiProcessing' = TRUE
  /\ aiCalls' = Append(aiCalls,
       AiCall("chat", "", FullText(pagesData), chatInput, chatMessages))
  /\ last' = "chatSend"
  /\ UNCHANGED <<overlayVars, extractVars, reconstructVars, reflowVars>>
  /\ UNCHANGED <<showAssistant, exported>>

\* chat.sendMessage resolves with result.text = text: the reply is appended;
\* finally setIsAiProcessing(false)
ChatResolved(i, text) ==
  /\ i \in 1..Len(aiCalls)
  /\ aiCalls[i].kind = "chat"
  /\ aiCalls' = RemoveAt(aiCalls, i)
  /\ chatMessages' =
       Append(chatMessages,
              ModelMessage(IF text = "" THEN "I couldn't generate a response." ELSE text))
  /\ isAiProcessing' = FALSE
  /\ last' = "chatReply"
  /\ UNCHANGED <<overlayVars, extractVars, reconstructVars, reflowVars>>
  /\ UNCHANGED <<chatInput, showAssistant, exported>>

\* chatWithDocument rejects: catch, console.error; finally
\* setIsAiProcessing(false)
ChatRejected(i) ==
  /\ i \in 1..Len(aiCalls)
  /\ aiCalls[i].kind = "chat"
  /\ aiCalls' = RemoveAt(aiCalls, i)
  /\ isAiProcessing' = FALSE
  /\ last' = "chatFailed"
  /\ UNCHANGED <<overlayVars, extractVars, reconstructVars, reflowVars>>
  /\ UNCHANGED <<chatMessages, chatInput, showAssistant, exported>>

\* handleDownload: orderedText holds pagesData[i] || "" for i = 1..numPages
\* and is handed to generatePdfFromContent, which lays it out and saves it
handleDownload ==
  /\ pdfDoc # 0
  /\ LET orderedText == [i \in 1..numPages(pdfDoc) |->
                           IF i \in DOMAIN pagesData THEN pagesData[i] ELSE ""]
         st == LayoutPages(orderedText, rfCursorY)
     IN  /\ exported' = orderedText
         /\ rfLines' = st.lines
         /\ rfCursorY' = st.cursorY
         /\ rfSaved' = rfSaved \cup {[pages |-> orderedText, lines |-> st.lines]}
  /\ last' = "download"
  /\ UNCHANGED <<overlayVars, extractVars, reconstructVars, rfPages>>
  /\ UNCHANGED <<chatMessages, chatInput, isAiProcessing, showAssistant, aiCalls>>

\* the App with its assistant: documents are loaded and rendered, the user
\* neither zooms nor edits
AssistNext ==
  \/ \E d \in Docs : StartUpload(d)
  \/ \E d \in Docs : FinishUpload(d)
  \/ \E p \in Pages : \E r \in requests[p] : GetPageResolved(p, r)
  \/ \E p \in Pages : \E r \in requests[p], v \in EditValues : GetTextResolved(p, r, v)
  \/ \E p \in Pages : \E r \in requests[p] : RenderFailed(p, r)
  \/ ToggleAssistant
  \/ \E text \in ChatInputs : TypeChat(text)
  \/ \E action \in AiActions : handleAiAction(action)
  \/ \E i \in 1..MaxCalls, text \in AiResults : AiActionResolved(i, text)
  \/ \E i \in 1..MaxCalls : AiActionServiceError(i)
  \/ \E i \in 1..MaxCalls : AiActionRejected(i)
  \/ handleSendMessage
  \/ \E i \in 1..MaxCalls, text \in AiResults : ChatResolved(i, text)
  \/ \E i \in 1..MaxCalls : ChatRejected(i)
  \/ handleDownload

AssistInit == Init /\ canvasRef

SpecAssist == AssistInit /\ [][AssistNext]_vars

\* focus discipline of the model: the editable surface that is rendered
\* holds the focus, and the focus is on a rendered editable surface
FocusOK ==
  /\ \A pr \in EditingPairs : activeElement = pr
  /\ activeElement # NoElement => activeElement \in EditingPairs

\* ===================================================== checked properties
\* the text the App holds for page p ("pagesData[i] || ''")
DocumentText(p) == IF p \in DOMAIN pagesData THEN pagesData[p] ELSE ""

RECURSIVE SpaceJoined(_)
\* the contents of the runs, in the given order, with one space between runs
SpaceJoined(runs) ==
  IF Len(runs) = 0 THEN ""
  ELSE IF Len(runs) = 1 THEN runs[1].str
  ELSE SpaceJoined(SubSeq(runs, 1, Len(runs) - 1)) \o " " \o runs[Len(runs)].str

\* the run of page p that holds the focus, 0 if none
ActiveIndex(p) == IF activeElement[1] = p THEN activeElement[2] ELSE 0

\* C1: in every reachable state, over all pages together, at most one
\* (pageNumber, runIndex) pair is in edit mode, and that pair is the surface
\* holding the focus (so its onBlur commits it before another pair is clicked).
C1_Exclusivity ==
  /\ Cardinality(EditingPairs) <= 1
  /\ \A pr \in EditingPairs : activeElement = pr

C1_Witness ==
  /\ last = "click"
  /\ isEditing(2, 1)
  /\ Len(textItems[1]) = 2
  /\ textItems[1][2].str = "Hi"
  /\ DocumentText(1) = "World Hi"

\* C2: a run becomes active only by a click made when no run is in edit mode:
\* the edit that was active has been committed by its onBlur before, and
\* activating a run never replaces an active edit.
C2_CommitThenActivate ==
  [][\A p \in Pages :
       (editingIndex'[p] # 0 /\ editingIndex'[p] # editingIndex[p])
         => (EditingPairs = {} /\ last' = "click")]_vars

C2_Witness ==
  /\ last = "click"
  /\ isEditing(1, 2)
  /\ textItems[1][1].str = "Hi"
  /\ DocumentText(1) = "Hi Hello"

\* C3: for every page p, DocumentText[p] is the single-space join of the
\* contents of the runs held for p, taken in reading order (descending Y,
\* then ascending X).
C3_ReadingOrderText ==
  \A p \in Pages : DocumentText(p) = SpaceJoined(SortItems(textItems[p]))

\* C4: a step of a superseded (cancelled) renderPage call writes nothing to
\* the page: not its runs, not its viewport, not its published text.
C4_StaleWritesNothing ==
  [][last' = "stale" => UNCHANGED <<textItems, viewport, pagesData>>]_vars

\* C5: on blur of the active surface of page p with content v, the run at the
\* active index has content v, pagesData[p] is the single-space join of the
\* page's runs, and no run is active.
C5_BlurCommits ==
  [][\A p \in Pages : \A v \in NewValues(p) :
       onBlur(p, v) =>
         /\ textItems'[p][ActiveIndex(p)].str = v
         /\ p \in DOMAIN pagesData'
         /\ pagesData'[p] = SpaceJoined(textItems'[p])
         /\ editingIndex'[p] = 0
         /\ EditingPairs' = {}]_vars

C5_Witness ==
  /\ last = "blur"
  /\ Len(textItems[1]) = 2
  /\ textItems[1][2].str = "Hi"
  /\ textItems[1][1].str = "World"
  /\ pagesData[1] = "World Hi"
  /\ EditingPairs = {}

\* C6: committing an edit to run i of page p changes the content of run i
\* only: all transforms, the content of the other runs, the number and order
\* of the runs, the runs of the other pages and the text of the other pages
\* stay as they are.
C6_CommitFrame ==
  [][last' = "blur" =>
       LET p == activeElement[1]
           i == activeElement[2]
       IN  /\ Len(textItems'[p]) = Len(textItems[p])
           /\ \A k \in 1..Len(textItems[p]) :
                /\ textItems'[p][k].transform = textItems[p][k].transform
                /\ k # i => textItems'[p][k] = textItems[p][k]
           /\ \A q \in Pages \ {p} :
                /\ textItems'[q] = textItems[q]
                /\ (q \in DOMAIN pagesData') = (q \in DOMAIN pagesData)
                /\ DocumentText(q)' = DocumentText(q)]_vars

C6_Witness ==
  /\ last = "blur"
  /\ Len(textItems[1]) = 2
  /\ textItems[1][1].str = "Hi"
  /\ textItems[1][1].transform = DocItems(1, 1)[1].transform
  /\ textItems[1][2] = DocItems(1, 1)[2]
  /\ textItems[2] = DocItems(1, 2)
  /\ DocumentText(2) = "Next"

\* C7: a click made with a non-empty text selection does not enter edit mode
\* and leaves the edit state, the runs and the document text unchanged.
C7_SelectionClickInert ==
  [][last' = "selectionClick" =>
       UNCHANGED <<editingIndex, activeElement, textItems, pagesData>>]_vars

C7_Witness ==
  /\ last = "selectionClick"
  /\ EditingPairs = {}
  /\ Len(textItems[1]) = 2
  /\ DocumentText(1) = "World Hello"

\* C8 (as stated): when the re-render of a page completes while a run of the
\* page is being edited, the runs are the freshly extracted ones and no run
\* of the page is in edit mode.
C8_RerenderEndsEdit ==
  [][\A p \in Pages :
       (last' = "rendered" /\ requests'[p] # requests[p] /\ editingIndex[p] # 0)
         => (textItems'[p] = DocItems(pdfDoc, p) /\ editingIndex'[p] = 0)]_vars

\* C8 (amended): when the re-render of a page completes while a run of the
\* page is being edited, the runs are the freshly extracted ones and their
\* single-space join is published, and editingIndex is left as it is: the
\* page stays in edit mode.
C8_RerenderKeepsEdit ==
  [][\A p \in Pages :
       (last' = "rendered" /\ requests'[p] # requests[p] /\ editingIndex[p] # 0)
         => /\ textItems'[p] = DocItems(pdfDoc, p)
            /\ DocumentText(p)' = SpaceJoined(DocItems(pdfDoc, p))
            /\ editingIndex'[p] = editingIndex[p]]_vars

C8_Witness ==
  /\ last = "rendered"
  /\ mounted = {1}
  /\ isEditing(1, 1)
  /\ activeElement = <<1, 1>>
  /\ viewport[1] = scale
  /\ scale # InitScale
  /\ requests[1] = {}
  /\ textItems[1] = DocItems(pdfDoc, 1)

\* C9: when a (current) render/extraction of a page fails, the page holds
\* zero runs afterwards.
C9_FailedPageHasNoRuns ==
  [][\A p \in Pages :
       (last' = "renderFailed" /\ requests'[p] # requests[p])
         => textItems'[p] = << >>]_vars

RECURSIVE TextOfPages(_, _, _)
\* the text extractTextFromPdf builds from pages k..Len(file), page `skip` left out
TextOfPages(file, k, skip) ==
  IF k > Len(file) THEN ""
  ELSE (IF k = skip THEN "" ELSE PageText(file[k]) \o "\n\n")
         \o TextOfPages(file, k + 1, skip)

\* C10: when the extraction of page i fails, the text of every other page of
\* the document is still produced.
C10_FailureIsLocal ==
  (ext.pc = "failed" /\ ext.failedAt >= 1)
    => editorText = TextOfPages(ext.file, 1, ext.failedAt)

\* C11: when the rewrite collaborator fails with a service error, the editor
\* text is exactly what it was before the call and an error message is shown.
C11_ServiceErrorKeepsText ==
  [][last' = "aiServiceError" =>
       (editorText' = editorText /\ alertText' = "AI processing failed.")]_vars

\* C12: when a chat call fails, an error message of the model is added to the
\* conversation in place of the reply.
C12_ChatFailureIsShown ==
  [][last' = "chatFailed" =>
       /\ Len(chatMessages') = Len(chatMessages) + 1
       /\ chatMessages'[Len(chatMessages')].role = "model"]_vars

RECURSIVE TextOfAllPages(_)
\* the texts of pages 1..n, a page without text counting as "", with a
\* paragraph break between consecutive pages
TextOfAllPages(n) ==
  IF n = 0 THEN ""
  ELSE IF n = 1 THEN DocumentText(1)
  ELSE TextOfAllPages(n - 1) \o "\n\n" \o DocumentText(n)

\* C13: the full text given to the rewrite and chat collaborators, and the
\* text given to export, is the paragraph-break join of the texts of all
\* pages 1..N in ascending order, one part per page.
C13_FullTextOfAllPages ==
  [][/\ Len(aiCalls') > Len(aiCalls) =>
          aiCalls'[Len(aiCalls')].documentText = TextOfAllPages(numPages(pdfDoc))
     /\ last' = "download" =>
          /\ Len(exported') = numPages(pdfDoc)
          /\ JoinWith(exported', "\n\n") = TextOfAllPages(numPages(pdfDoc))]_vars

\* the page texts an update is tried with
UpdateTexts == {"Next", ""}

\* C14: update(pageNumber, text) on the DocumentText of any reachable state is
\* idempotent (applied twice it gives what it gives applied once), updates to
\* different pages commute, the entry of the page is the text of the last
\* update, and the entries of the other pages are untouched.
C14_UpdateAlgebra ==
  \A p, q \in Pages : \A t, u \in UpdateTexts :
    LET once == handlePageTextChange(pagesData, p, t)
    IN  /\ handlePageTextChange(once, p, t) = once
        /\ p # q =>
             handlePageTextChange(once, q, u)
               = handlePageTextChange(handlePageTextChange(pagesData, q, u), p, t)
        /\ handlePageTextChange(once, p, u)[p] = u
        /\ DOMAIN once = (DOMAIN pagesData) \cup {p}
        /\ \A r \in (DOMAIN pagesData) \ {p} : once[r] = pagesData[r]

C14_Witness ==
  /\ last = "rendered"
  /\ DOMAIN pagesData = {1, 2}
  /\ pagesData[1] = "World Hello"
  /\ pagesData[2] = "Next"
  /\ handlePageTextChange(handlePageTextChange(pagesData, 2, ""), 1, "Next")
       = <<"Next", "">>

X(run) == run.transform[5]
Y(run) == run.transform[6]

\* C15 (as stated): after the sort, for every input, two runs whose Y differ
\* by at most 5 are in ascending X order, and two runs whose Y differ by more
\* than 5 are in descending Y order.
C15_ReadingOrder ==
  rcPc # "start" =>
    \A i, j \in 1..Len(rcSorted) :
      i < j =>
        IF Abs(Y(rcSorted[i]) - Y(rcSorted[j])) <= 5
        THEN X(rcSorted[i]) <= X(rcSorted[j])
        ELSE Y(rcSorted[i]) > Y(rcSorted[j])

\* "within 5 units in Y" puts the runs into lines: it is transitive
SameLineIsTransitive(runs) ==
  \A i, j, k \in 1..Len(runs) :
    (Abs(Y(runs[i]) - Y(runs[j])) <= 5 /\ Abs(Y(runs[j]) - Y(runs[k])) <= 5)
      => Abs(Y(runs[i]) - Y(runs[k])) <= 5

\* C15 (amended): after the sort of an input in which "within 5 units in Y"
\* is transitive, two runs whose Y differ by at most 5 are in ascending X
\* order and two runs whose Y differ by more than 5 are in descending Y
\* order; the sorted sequence holds the runs of the input, each once.
C15_ReadingOrderOfSeparateLines ==
  (rcPc # "start" /\ SameLineIsTransitive(rcItems)) =>
    /\ Len(rcSorted) = Len(rcItems)
    /\ {rcSorted[i] : i \in 1..Len(rcSorted)} = {rcItems[i] : i \in 1..Len(rcItems)}
    /\ \A i, j \in 1..Len(rcSorted) :
         i < j =>
           IF Abs(Y(rcSorted[i]) - Y(rcSorted[j])) <= 5
           THEN X(rcSorted[i]) <= X(rcSorted[j])
           ELSE Y(rcSorted[i]) > Y(rcSorted[j])

C15_Witness ==
  /\ rcPc = "sorted"
  /\ rcItems = <<Item("Next", 0, 50), Item("World", 50, 100), Item("Hello", 0, 100)>>
  /\ rcSorted = <<Item("Hello", 0, 100), Item("World", 50, 100), Item("Next", 0, 50)>>

\* the text of the first n sorted runs according to the separator rule
RECURSIVE RuleText(_, _)
RuleText(runs, n) ==
  IF n = 0 THEN ""
  ELSE IF n = 1 THEN runs[1].str
  ELSE LET before == RuleText(runs, n - 1)
           gap    == Abs(Y(runs[n]) - Y(runs[n - 1]))
           sep    == IF gap > 10 THEN "\n"
                     ELSE IF before = "" \/ EndsWith(before, " ")
                             \/ EndsWith(before, "\n")
                          THEN ""
                          ELSE " "
       IN  before \o sep \o runs[n].str

\* no two consecutive runs are more than 100 units apart in Y
GapsAtMost100(runs) ==
  \A n \in 2..Len(runs) : Abs(Y(runs[n]) - Y(runs[n - 1])) <= 100

\* C16: walking the sorted runs, a run within 10 units in Y of the previous
\* one is joined with exactly one space (none if the text is empty or ends in
\* a space or a line break), a run more than 10 and at most 100 units away is
\* preceded by exactly one line break; the runs Hello(y=100,x=0),
\* World(y=100,x=50), Next(y=50,x=0) give "Hello World\nNext".
C16_SeparatorRule ==
  rcPc = "done" =>
    /\ GapsAtMost100(rcSorted) => rcText = RuleText(rcSorted, Len(rcSorted))
    /\ (/\ Len(rcItems) = 3
        /\ {rcItems[i] : i \in 1..3} =
             {Item("Hello", 0, 100), Item("World", 50, 100), Item("Next", 0, 50)})
         => rcText = "Hello World\nNext"

C16_Witness ==
  /\ rcPc = "done"
  /\ rcItems = <<Item("Next", 0, 50), Item("World", 50, 100), Item("Hello", 0, 100)>>
  /\ rcText = "Hello World\nNext"

\* C17: committing an edit whose content equals the run's current content
\* re-joins the page's runs to the text that is published for the page, and
\* on a page whose runs are as extracted that text is the linear text of the
\* initial extraction pass.
C17_RejoinIsIdempotent ==
  [][\A p \in Pages :
       (last' = "blur" /\ activeElement[1] = p /\ textItems'[p] = textItems[p])
         => /\ p \in DOMAIN pagesData'
            /\ p \in DOMAIN pagesData => pagesData'[p] = pagesData[p]
            /\ textItems[p] = DocItems(pdfDoc, p) =>
                 pagesData'[p] = SpaceJoined(DocItems(pdfDoc, p))]_vars

C17_Witness ==
  /\ last = "blur"
  /\ pdfDoc = 1
  /\ textItems[1] = DocItems(1, 1)
  /\ DocumentText(1) = "World Hello"
  /\ EditingPairs = {}

\* the lines that fill pageHeight - 2*margin at lineHeight per line
FitLines == (PageHeight - 2 * Margin) \div LineHeight

\* C18 (as stated): a one-paragraph body whose lines fill pageHeight -
\* 2*margin is laid out entirely on output page 0, and of a body with one
\* more line exactly that extra line is on output page 1.
C18_BoundaryByMargin ==
  \A e \in rfSaved : \A n \in {FitLines, FitLines + 1} :
    e.pages = <<Words(n)>> =>
      /\ Len(e.lines) = n
      /\ \A k \in 1..n : e.lines[k].pageIndex = (IF k <= FitLines THEN 0 ELSE 1)

\* the baselines InitialCursorY + k*LineHeight that are not below
\* PageHeight - BottomMargin
LinesPerPage == (PageHeight - BottomMargin - InitialCursorY) \div LineHeight + 1

\* C18 (amended): the cursor starts at 20 and a line is moved to the next
\* page when the cursor is beyond pageHeight - 20: a one-paragraph body of at
\* most LinesPerPage (43) lines is laid out entirely on output page 0, line k
\* at 20 + (k-1)*lineHeight, and of a body with one more line exactly that
\* extra line is on output page 1, at 20.
C18_BoundaryByCursor ==
  \A e \in rfSaved : \A n \in 1..(LinesPerPage + 1) :
    e.pages = <<Words(n)>> =>
      /\ Len(e.lines) = n
      /\ \A k \in 1..n :
           IF k <= LinesPerPage
           THEN /\ e.lines[k].pageIndex = 0
                /\ e.lines[k].baselineY = InitialCursorY + (k - 1) * LineHeight
           ELSE /\ e.lines[k].pageIndex = 1
                /\ e.lines[k].baselineY = InitialCursorY

C18_Witness ==
  /\ rfPages = <<Words(LinesPerPage + 1)>>
  /\ \E e \in rfSaved :
       /\ e.pages = rfPages
       /\ e.lines[LinesPerPage] = [content |-> "x", pageIndex |-> 0, baselineY |-> 272]
       /\ e.lines[LinesPerPage + 1] = [content |-> "x", pageIndex |-> 1, baselineY |-> 20]

RECURSIVE AllParagraphs(_, _)
\* the paragraphs of the pages from page i on, in order
AllParagraphs(pages, i) ==
  IF i > Len(pages) THEN << >>
  ELSE SplitOn(pages[i], "\n") \o AllParagraphs(pages, i + 1)

RECURSIVE LastLineOf(_, _)
\* the index of the last line of the i-th paragraph
LastLineOf(paragraphs, i) ==
  IF i = 0 THEN 0
  ELSE LastLineOf(paragraphs, i - 1) + Len(splitTextToSize(paragraphs[i]))

\* the first line of every paragraph is at least 1.5 * lineHeight below the
\* last line of the paragraph before it when both are on the same page
ParagraphsAreSpaced(e) ==
  LET paragraphs == AllParagraphs(e.pages, 1)
  IN  \A i \in 1..(Len(paragraphs) - 1) :
        LET endOf == LastLineOf(paragraphs, i)
        IN  (endOf >= 1 /\ endOf < Len(e.lines)
               /\ e.lines[endOf + 1].pageIndex = e.lines[endOf].pageIndex)
              => 2 * (e.lines[endOf + 1].baselineY - e.lines[endOf].baselineY)
                   >= 3 * LineHeight

ScenarioB == "Paragraph one.\n\nParagraph two."

\* C19 (as stated): the body of Scenario B, each paragraph wrapping into 2
\* lines, gives exactly 4 lines, the gap between lines 2 and 3 being larger
\* than the gaps between lines 1 and 2 and between lines 3 and 4, which are
\* lineHeight; paragraphs on one page are at least 1.5 * lineHeight apart.
C19_ScenarioBFourLines ==
  \A e \in rfSaved :
    /\ ParagraphsAreSpaced(e)
    /\ e.pages = <<ScenarioB>> =>
         /\ Len(e.lines) = 4
         /\ e.lines[2].baselineY - e.lines[1].baselineY = LineHeight
         /\ e.lines[4].baselineY - e.lines[3].baselineY = LineHeight
         /\ e.lines[3].baselineY - e.lines[2].baselineY > LineHeight

\* C19 (amended): the body of Scenario B, each paragraph wrapping into 2
\* lines, gives 5 lines: the 4 lines of text and between them the empty line
\* of the empty paragraph between the two line breaks; the gap between the
\* text lines 2 and 3 is 3 * lineHeight, the gaps between the text lines 1
\* and 2 and between 3 and 4 are lineHeight; paragraphs on one page are at
\* least 1.5 * lineHeight apart.
C19_ScenarioBWithEmptyLine ==
  \A e \in rfSaved :
    /\ ParagraphsAreSpaced(e)
    /\ e.pages = <<ScenarioB>> =>
         /\ [k \in 1..Len(e.lines) |-> e.lines[k].content]
              = <<"Paragraph", "one.", "", "Paragraph", "two.">>
         /\ e.lines[2].baselineY - e.lines[1].baselineY = LineHeight
         /\ e.lines[5].baselineY - e.lines[4].baselineY = LineHeight
         /\ e.lines[4].baselineY - e.lines[2].baselineY = 3 * LineHeight
         /\ \A k \in 1..5 : e.lines[k].pageIndex = 0

C19_Witness ==
  /\ rfPages = <<ScenarioB>>
  /\ \E e \in rfSaved :
       /\ e.pages = rfPages
       /\ Len(e.lines) = 5
       /\ e.lines[2].baselineY = 26
       /\ e.lines[4].baselineY = 44

\* C20: every export of the same pages gives the same lines (contents, page
\* indexes and baselines), whatever was exported before: each layout starts
\* on page 0 with the cursor at its initial value.
C20_LayoutIsDeterministic ==
  /\ \A e1, e2 \in rfSaved : e1.pages = e2.pages => e1.lines = e2.lines
  /\ \A e \in rfSaved :
       /\ e.lines[1].pageIndex = 0
       /\ e.lines[1].baselineY = InitialCursorY

C20_Witness ==
  /\ last = "reexport"
  /\ rfPages # OtherPages
  /\ Cardinality(rfSaved) = 2
  /\ [pages |-> rfPages, lines |-> rfLines] \in rfSaved
  /\ Len(rfPages) = 2
  /\ rfLines[Len(rfLines)].pageIndex >= 2

\* C21: when every page text handed to export is empty or white space only,
\* export is a no-op: the document writer is not invoked and no file is
\* saved.
C21_ExportEmptyIsNoOp ==
  [][(last' = "download" /\ \A i \in 1..Len(exported') : IsBlank(exported'[i]))
       => UNCHANGED <<rfLines, rfCursorY, rfSaved>>]_vars

\* the text the walk has built when it has taken the first n sorted runs
WalkedText(n) == WalkItems(SubSeq(rcSorted, 1, n), "", << >>)

\* C22: walking the sorted runs, every run whose Y differs from the previous
\* run's Y by more than 100 units is preceded by a paragraph break ("\n\n"),
\* not by a single line break.
C22_ParagraphBreak ==
  rcPc = "done" =>
    /\ rcText = WalkedText(Len(rcSorted))
    /\ \A n \in 2..Len(rcSorted) :
         Abs(Y(rcSorted[n]) - Y(rcSorted[n - 1])) > 100
           => WalkedText(n) = WalkedText(n - 1) \o "\n\n" \o rcSorted[n].str

RECURSIVE PlanOfParagraphs(_, _)
\* the lines of the paragraphs from the i-th on: the content of each line and
\* whether it is the first line of a paragraph that follows another one
PlanOfParagraphs(paragraphs, i) ==
  IF i > Len(paragraphs) THEN << >>
  ELSE LET lines == splitTextToSize(paragraphs[i])
       IN  [k \in 1..Len(lines) |->
              [content |-> lines[k], afterParagraph |-> (k = 1 /\ i > 1),
               startsBody |-> FALSE]]
             \o PlanOfParagraphs(paragraphs, i + 1)

\* the lines of one body, the first one marked as the start of the body
PlanOfBody(body) ==
  LET plan == PlanOfParagraphs(SplitOn(body, "\n"), 1)
  IN  [k \in 1..Len(plan) |-> [plan[k] EXCEPT !.startsBody = (k = 1)]]

RECURSIVE PlanOfPages(_, _)
\* the lines of the bodies from the i-th on
PlanOfPages(pages, i) ==
  IF i > Len(pages) THEN << >>
  ELSE PlanOfBody(pages[i]) \o PlanOfPages(pages, i + 1)

\* the saved document e follows the cursor rule with the cursor starting at
\* `top` on every output page and the overflow break beyond `limit`: the first
\* line is on page 0 at top; every later line is at the cursor (the baseline
\* before it plus lineHeight, plus the paragraph space if it begins a further
\* paragraph) on the same page, or on the next page at top exactly when it
\* begins a further body or the cursor exceeds limit
CursorRule(e, top, limit) ==
  LET plan == PlanOfPages(e.pages, 1)
  IN  /\ Len(e.lines) = Len(plan)
      /\ \A k \in 1..Len(plan) :
           /\ e.lines[k].content = plan[k].content
           /\ IF k = 1
              THEN /\ e.lines[k].pageIndex = 0
                   /\ e.lines[k].baselineY = top
              ELSE LET cursor == e.lines[k - 1].baselineY + LineHeight
                                   + (IF plan[k].afterParagraph THEN ParagraphGap ELSE 0)
                   IN  IF plan[k].startsBody \/ cursor > limit
                       THEN /\ e.lines[k].pageIndex = e.lines[k - 1].pageIndex + 1
                            /\ e.lines[k].baselineY = top
                       ELSE /\ e.lines[k].pageIndex = e.lines[k - 1].pageIndex
                            /\ e.lines[k].baselineY = cursor

\* every baseline of e is between lo and hi
BaselinesWithin(e, lo, hi) ==
  \A k \in 1..Len(e.lines) : lo <= e.lines[k].baselineY /\ e.lines[k].baselineY <= hi

\* pageIndex never decreases and baselineY increases within one page
PagesAndBaselinesAscend(e) ==
  \A k \in 1..(Len(e.lines) - 1) :
    /\ e.lines[k].pageIndex <= e.lines[k + 1].pageIndex
    /\ e.lines[k].pageIndex = e.lines[k + 1].pageIndex
         => e.lines[k].baselineY < e.lines[k + 1].baselineY

\* C23 (as stated): on every output page the cursor starts at margin, every
\* line is placed at the cursor and advances it by lineHeight, and a new page
\* is started (cursor back to margin) exactly when the cursor would exceed
\* pageHeight - margin; every line has margin <= baselineY <= pageHeight -
\* margin, pageIndex never decreases and baselineY increases within a page.
C23_CursorFromMargin ==
  \A e \in rfSaved :
    /\ CursorRule(e, Margin, PageHeight - Margin)
    /\ BaselinesWithin(e, Margin, PageHeight - Margin)
    /\ PagesAndBaselinesAscend(e)

\* C23 (amended): on every output page the cursor starts at 20, every line
\* is placed at the cursor and advances it by lineHeight, and a new page is
\* started (cursor back to 20) exactly when the cursor exceeds pageHeight -
\* 20 (the bottom margin) or a further body begins; every line has
\* 20 <= baselineY <= pageHeight - 20, pageIndex never decreases and
\* baselineY increases within a page.
C23_CursorFromInitialY ==
  \A e \in rfSaved :
    /\ CursorRule(e, InitialCursorY, PageHeight - BottomMargin)
    /\ BaselinesWithin(e, InitialCursorY, PageHeight - BottomMargin)
    /\ PagesAndBaselinesAscend(e)

C23_Witness ==
  /\ rfPages = <<Words(LinesPerPage - 2) \o "\nx\nx">>
  /\ \E e \in rfSaved :
       /\ e.pages = rfPages
       /\ Len(e.lines) = LinesPerPage
       /\ e.lines[LinesPerPage - 1] =
            [content |-> "x", pageIndex |-> 0,
             baselineY |-> InitialCursorY + (LinesPerPage - 2) * LineHeight
                             + ParagraphGap]
       /\ e.lines[LinesPerPage] =
            [content |-> "x", pageIndex |-> 1, baselineY |-> InitialCursorY]

RECURSIVE BodyNumbers(_, _)
\* for every line of the bodies from the i-th on, the number of its body
BodyNumbers(pages, i) ==
  IF i > Len(pages) THEN << >>
  ELSE [k \in 1..Len(PlanOfBody(pages[i])) |-> i] \o BodyNumbers(pages, i + 1)

\* C24: with one body per source page, every line of a later body is on a
\* strictly later output page than every line of an earlier body, the first
\* line of every body is at the top of its page (the cursor is reset to 20),
\* every body, an empty one too, has a page of its own, and the output has
\* at least as many pages as there are bodies.
C24_ForcedBreakBetweenBodies ==
  \A e \in rfSaved :
    LET plan   == PlanOfPages(e.pages, 1)
        bodyOf == BodyNumbers(e.pages, 1)
    IN  /\ Len(e.lines) = Len(bodyOf)
        /\ \A b \in 1..Len(e.pages) : \E k \in 1..Len(bodyOf) : bodyOf[k] = b
        /\ \A j, k \in 1..Len(e.lines) :
             (j < k /\ bodyOf[j] < bodyOf[k])
               => e.lines[j].pageIndex < e.lines[k].pageIndex
        /\ \A k \in 1..Len(e.lines) :
             plan[k].startsBody => e.lines[k].baselineY = InitialCursorY
        /\ e.lines[Len(e.lines)].pageIndex + 1 >= Len(e.pages)

C24_Witness ==
  /\ rfPages = <<Words(LinesPerPage + 1), "">>
  /\ \E e \in rfSaved :
       /\ e.pages = rfPages
       /\ Len(e.lines) = LinesPerPage + 2
       /\ e.lines[LinesPerPage + 1].pageIndex = 1
       /\ e.lines[LinesPerPage + 2] =
            [content |-> "", pageIndex |-> 2, baselineY |-> InitialCursorY]

\* C25: for every run that is shown, the element's left is the transformed X
\* and its top is the transformed baseline Y minus the approximate glyph
\* height |transform.scaleY| * scaleFactor (the absolute value of matrix
\* entry d), also when scale-x and scale-y are unequal or negative.
C25_TopLeftAnchoring ==
  \A p \in mounted :
    viewport[p] # NoViewport =>
      \A idx \in 1..Len(textItems[p]) :
        LET item == textItems[p][idx]
            pt   == convertToViewportPoint(viewport[p], item.transform[5],
                                           item.transform[6])
        IN  /\ commonStyle(p, idx).left = pt[1]
            /\ commonStyle(p, idx).top = pt[2] - Abs(item.transform[4]) * scale

\* C26: at most one rewrite or chat request to the AI service is in flight
\* at any time, and isAiProcessing is true whenever a request is in flight.
C26_OneRequestInFlight ==
  /\ Len(aiCalls) <= 1
  /\ Len(aiCalls) > 0 => isAiProcessing

\* the runs of page p of document d after any edits: every content is the
\* extracted one or one the user typed
EditedRuns(d, p) ==
  LET items == DocItems(d, p)
  IN  {[k \in 1..Len(items) |-> [items[k] EXCEPT !.str = f[k]]] :
         f \in {g \in [1..Len(items) -> EditValues \cup {items[k].str : k \in 1..Len(items)}] :
                  \A k \in 1..Len(items) : g[k] \in EditValues \cup {items[k].str}}}

\* DocumentText and the runs held belong to the document that is loaded:
\* there are entries for its pages only, and every entry is the text of the
\* (possibly edited) runs of that page of that document
OnlyCurrentText ==
  pdfDoc # 0 =>
    /\ DOMAIN pagesData \subseteq 1..numPages(pdfDoc)
    /\ \A p \in DOMAIN pagesData :
         pagesData[p] \in {Join(items) : items \in EditedRuns(pdfDoc, p)}
    /\ \A p \in mounted :
         textItems[p] = << >> \/ textItems[p] \in EditedRuns(pdfDoc, p)

\* C27: when a document is loaded after the previous one was closed,
\* DocumentText is reset and from then on (as long as that document stays
\* loaded) holds only text of the new document: nothing belonging to the
\* previous document writes an entry after the reset, and no entry exists for
\* a page number beyond the new document's page count.
C27_ReloadStartsClean ==
  [][/\ last' = "load" => (pagesData' = << >> /\ OnlyCurrentText')
     /\ (OnlyCurrentText /\ pdfDoc # 0 /\ pdfDoc' = pdfDoc) => OnlyCurrentText']_vars

\* a document was shown before (the zoom was changed), it was closed, and
\* document 2 has been loaded: the text is reset
C27_Witness ==
  /\ last = "load"
  /\ pdfDoc = 2
  /\ scale # InitScale
  /\ pagesData = << >>
  /\ mounted = {1}
  /\ textItems[1] = << >>

\* page p of the loaded document is published: its runs are those of the
\* extraction (possibly edited) and it has an entry in DocumentText
Published(p) ==
  /\ textItems[p] \in EditedRuns(pdfDoc, p)
  /\ p \in DOMAIN pagesData

AllPublished == pdfDoc # 0 => \A p \in 1..numPages(pdfDoc) : Published(p)

\* C28: if the extraction collaborator answers every call without failing
\* and from some point on the document and the scale do not change, then
\* from some point on every page 1..N has its runs from the extraction at the
\* current scale and an entry in DocumentText.
C28_PublicationIsLive ==
  <>[][pdfDoc' = pdfDoc /\ scale' = scale]_vars => <>[]AllPublished

\* C29: the scale stays within [0.5, 3] under any sequence of zoom-in and
\* zoom-out actions; each action changes the scale by at most 0.1; zooming
\* out at 0.5 and zooming in at 3 leave the scale unchanged.
C29_ZoomBounds ==
  [][/\ scale \in MinScale..MaxScale
     /\ scale' \in MinScale..MaxScale
     /\ Abs(scale' - scale) <= ZoomStep
     /\ (ZoomOutAnywhere /\ scale = MinScale) => scale' = scale
     /\ (ZoomInAnywhere /\ scale = MaxScale) => scale' = scale
     /\ (ZoomOutAnywhere /\ scale > MinScale) => scale' = scale - ZoomStep
     /\ (ZoomInAnywhere /\ scale < MaxScale) => scale' = scale + ZoomStep]_vars

C29_Witness ==
  /\ last = "zoomKept"
  /\ scale = MinScale
  /\ pdfDoc # 0

====
